---- MODULE Spec2Model ----
(***************************************************************************)
(* Data-access layer of the Big-Bird-Portfolio backend                     *)
(* (backend/database.py, the schema of backend/upload_newusers.py and the  *)
(* single shared instance  db  of backend/api_server.py).                  *)
(*                                                                         *)
(* A repository call is a short sequence of steps on the one shared        *)
(* connection: Call, _get_cursor, Execute, Commit (writes), Rollback (the  *)
(* except clause of writes) and Return.  The database keeps a committed    *)
(* copy of each table and the copy seen inside the open transaction.       *)
(* Numbers are integer valued; text is an opaque string.                   *)
(***************************************************************************)
EXTENDS Integers, Sequences, FiniteSets, TLC

(***************************************************************************)
(* Bounds of the model                                                     *)
(***************************************************************************)
\* connection handles the process may open (the first one included)
MaxConn == 2
\* save_portfolio calls, each drawing a fresh uuid
MaxSaves == 2
\* create_user calls, each drawing a fresh uuid
MaxCreates == 2
\* trading dates 1..MaxDate
MaxDate == 3

\* width of the significand of a REAL (float4) column
MantissaBits == 24

Threads == {"t1", "t2"}
\* the thread of a process that serves one request at a time
SeqThreads == {"t1"}

(***************************************************************************)
(* Python values and their JSON text                                       *)
(***************************************************************************)
PyNone == [t |-> "None"]
PyNum(n) == [t |-> "num", v |-> n]
PyStr(s) == [t |-> "str", v |-> s]
PyList(s) == [t |-> "list", v |-> s]
PyDict(f) == [t |-> "dict", v |-> f]
PyBool(b) == [t |-> "bool", v |-> b]

IsNone(x) == x.t = "None"

\* one token of JSON text
Tok(k, s, n) == [k |-> k, s |-> s, n |-> n]
Punct(s) == Tok("punct", s, 0)

EmptyDict == [k \in {} |-> PyNone]

RECURSIVE KeyOrder(_)
\* the keys of a dict in the order the encoder visits them
KeyOrder(S) ==
    IF S = {} THEN <<>>
    ELSE LET k == CHOOSE x \in S : TRUE IN <<k>> \o KeyOrder(S \ {k})

RECURSIVE json_dumps(_)
RECURSIVE DumpItems(_)
RECURSIVE DumpMembers(_, _)
\* json.dumps: a Python value to JSON text (a sequence of tokens)
json_dumps(x) ==
    CASE x.t = "None" -> <<Tok("lit", "null", 0)>>
      [] x.t = "num"  -> <<Tok("num", "", x.v)>>
      [] x.t = "str"  -> <<Tok("str", x.v, 0)>>
      [] x.t = "list" -> <<Punct("[")>> \o DumpItems(x.v) \o <<Punct("]")>>
      [] x.t = "dict" -> <<Punct("{")>> \o DumpMembers(x.v, KeyOrder(DOMAIN x.v))
                              \o <<Punct("}")>>

DumpItems(s) ==
    IF s = <<>> THEN <<>>
    ELSE json_dumps(Head(s))
           \o (IF Len(s) > 1 THEN <<Punct(",")>> ELSE <<>>)
           \o DumpItems(Tail(s))

DumpMembers(f, keys) ==
    IF keys = <<>> THEN <<>>
    ELSE <<Tok("str", Head(keys), 0), Punct(":")>> \o json_dumps(f[Head(keys)])
           \o (IF Len(keys) > 1 THEN <<Punct(",")>> ELSE <<>>)
           \o DumpMembers(f, Tail(keys))

RECURSIVE ParseValue(_, _)
RECURSIVE ParseItems(_, _, _)
RECURSIVE ParseMembers(_, _, _)
\* the JSON value that starts at token i, and the index after it
ParseValue(toks, i) ==
    LET tk == toks[i] IN
    CASE tk.k = "lit" -> [v |-> PyNone, i |-> i + 1]
      [] tk.k = "num" -> [v |-> PyNum(tk.n), i |-> i + 1]
      [] tk.k = "str" -> [v |-> PyStr(tk.s), i |-> i + 1]
      [] tk.k = "punct" /\ tk.s = "[" -> ParseItems(toks, i + 1, <<>>)
      [] tk.k = "punct" /\ tk.s = "{" -> ParseMembers(toks, i + 1, EmptyDict)

ParseItems(toks, i, acc) ==
    LET tk == toks[i] IN
    IF tk.k = "punct" /\ tk.s = "]" THEN [v |-> PyList(acc), i |-> i + 1]
    ELSE IF tk.k = "punct" /\ tk.s = "," THEN ParseItems(toks, i + 1, acc)
    ELSE LET r == ParseValue(toks, i) IN ParseItems(toks, r.i, Append(acc, r.v))

ParseMembers(toks, i, acc) ==
    LET tk == toks[i] IN
    IF tk.k = "punct" /\ tk.s = "}" THEN [v |-> PyDict(acc), i |-> i + 1]
    ELSE IF tk.k = "punct" /\ tk.s = "," THEN ParseMembers(toks, i + 1, acc)
    ELSE LET r == ParseValue(toks, i + 2) IN
         ParseMembers(toks, r.i,
             [k \in DOMAIN acc \cup {tk.s} |-> IF k = tk.s THEN r.v ELSE acc[k]])

\* json.loads, as psycopg2 applies it to a json/jsonb column it reads
json_loads(toks) == ParseValue(toks, 1).v

\* a JSONB column: the text is parsed on the way in and printed on the way out
JsonbIn(toks) == ParseValue(toks, 1).v
JsonbOut(x) == json_dumps(x)

(***************************************************************************)
(* Numeric columns                                                         *)
(***************************************************************************)
Pow2(n) == 2 ^ n

RECURSIVE Ulp(_)
\* spacing of the float4 numbers around the natural number n
Ulp(n) == IF n < Pow2(MantissaBits) THEN 1 ELSE 2 * Ulp(n \div 2)

\* the float4 nearest to the natural number n (round half to even)
RoundReal(n) ==
    LET s == Ulp(n)
        q == n \div s
        r == n % s
    IN  IF 2 * r < s THEN q * s
        ELSE IF 2 * r > s THEN (q + 1) * s
        ELSE IF q % 2 = 0 THEN q * s ELSE (q + 1) * s

\* a value written to a REAL column and read back
Real(n) == IF n < 0 THEN 0 - RoundReal(0 - n) ELSE RoundReal(n)

(***************************************************************************)
(* Rows, arguments and results                                             *)
(***************************************************************************)
Some(x) == [t |-> "some", v |-> x]

\* payload.get(key)
Get(payload, key) == IF key \in DOMAIN payload THEN payload[key] ELSE PyNone

Symbols == {"AAPL", "MSFT", "TSLA"}
\* position of a symbol in ORDER BY ticker_symbol
SymRank == [s \in Symbols |-> CASE s = "AAPL" -> 1 [] s = "MSFT" -> 2 [] s = "TSLA" -> 3]

Emails == {"a@x.com", "b@x.com"}
Usernames == {"alice", "bob"}
Dates == 1 .. MaxDate

\* a start_date / end_date argument: None, '' or a date
DateNone == [k |-> "None", d |-> 0]
DateEmpty == [k |-> "empty", d |-> 0]
DateOf(d) == [k |-> "date", d |-> d]
DateArgs == {DateNone, DateEmpty} \cup {DateOf(d) : d \in Dates}
\* Python truth of the argument:  if start_date:
Truthy(a) == a.k = "date"

ResultKeys == {"expectedValue", "worstCase", "bestCase", "expectedReturn",
               "probOfPositiveReturn", "probOfReturnGreaterThan10",
               "probOfReturnGreaterThan20", "probOfLossGreaterThan10",
               "probOfLossGreaterThan20"}
\* the keys save_portfolio subscripts: payload[key]
RequiredKeys == {"name", "portfolioAmount", "lookbackPeriod", "allocations", "results"}

PayloadCore ==
    [name |-> "Core", portfolioAmount |-> 10000, lookbackPeriod |-> 5,
     allocations |-> PyDict([k \in {"AAPL", "MSFT"} |->
                                IF k = "AAPL" THEN PyNum(60) ELSE PyNum(40)]),
     results |-> [expectedValue |-> 12000, worstCase |-> 8000, bestCase |-> 16000,
                  expectedReturn |-> 20, probOfPositiveReturn |-> 70,
                  probOfReturnGreaterThan10 |-> 50, probOfReturnGreaterThan20 |-> 10,
                  probOfLossGreaterThan10 |-> 5, probOfLossGreaterThan20 |-> 1]]

PayloadBig ==
    [name |-> "Big", description |-> PyStr("large account"),
     portfolioAmount |-> 16777217, lookbackPeriod |-> 10,
     allocations |-> PyDict([k \in {"AAPL"} |-> PyNum(100)]),
     results |-> [expectedValue |-> 33554435, worstCase |-> 8000, bestCase |-> 16000,
                  expectedReturn |-> 20, probOfPositiveReturn |-> 70,
                  probOfReturnGreaterThan10 |-> 50, probOfReturnGreaterThan20 |-> 10,
                  probOfLossGreaterThan10 |-> 5, probOfLossGreaterThan20 |-> 1],
     simulationData |-> PyDict([k \in {"paths"} |-> PyList(<<PyNum(1), PyNum(2)>>)])]

\* a payload without lookbackPeriod
PayloadShort ==
    [name |-> "Short", portfolioAmount |-> 10000,
     allocations |-> PyDict([k \in {"AAPL"} |-> PyNum(100)]),
     results |-> PayloadCore.results]

\* a payload whose results lack worstCase
PayloadNoWorstCase ==
    [name |-> "Partial", portfolioAmount |-> 10000, lookbackPeriod |-> 5,
     allocations |-> PyDict([k \in {"AAPL"} |-> PyNum(100)]),
     results |-> [k \in ResultKeys \ {"worstCase"} |-> 1]]

Payloads == {PayloadCore, PayloadBig, PayloadShort, PayloadNoWorstCase}

\* whether evaluating the INSERT parameters raises KeyError
MissingKey(payload) ==
    \/ RequiredKeys \ DOMAIN payload # {}
    \/ ResultKeys \ DOMAIN payload.results # {}

(***************************************************************************)
(* Result orders                                                           *)
(***************************************************************************)
RECURSIVE OrderedAsc(_, _)
\* every sequence that lists the rows of S once, ascending in key[row]
OrderedAsc(S, key) ==
    IF S = {} THEN {<<>>}
    ELSE UNION { {<<x>> \o p : p \in OrderedAsc(S \ {x}, key)} :
                 x \in {y \in S : \A z \in S : key[y] <= key[z]} }

\* every sequence that lists the rows of S once, descending in key[row]
OrderedDesc(S, key) == OrderedAsc(S, [r \in S |-> 0 - key[r]])

Max(S) == CHOOSE x \in S : \A y \in S : y <= x
Min(S) == CHOOSE x \in S : \A y \in S : x <= y

RECURSIVE Sum(_, _)
Sum(S, f) == IF S = {} THEN 0
             ELSE LET x == CHOOSE y \in S : TRUE IN f[x] + Sum(S \ {x}, f)

(***************************************************************************)
(* The queries: what each statement returns to the code that fetched it    *)
(* (a set when SQL leaves the choice open)                                 *)
(***************************************************************************)
\* cursor.fetchone() on a result set
FetchOne(rows) == IF rows = {} THEN {PyNone} ELSE {Some(r) : r \in rows}

get_ticker_info(tks, ticker_symbol) ==
    FetchOne({r \in tks : r.ticker_symbol = ticker_symbol})

\* PriceRows with date > %s in place of date >= %s
PriceRowsAfterStart(prices, ticker_symbol, start_date, end_date) ==
    {r \in prices :
        /\ r.ticker_symbol = ticker_symbol
        /\ (Truthy(start_date) => r.date > start_date.d)
        /\ (Truthy(end_date) => r.date <= end_date.d)}

\* the rows the WHERE clause of get_ticker_prices keeps
PriceRows(prices, ticker_symbol, start_date, end_date) ==
    {r \in prices :
        /\ r.ticker_symbol = ticker_symbol
        /\ (Truthy(start_date) => r.date >= start_date.d)
        /\ (Truthy(end_date) => r.date <= end_date.d)}

\* rows (date, close_price)
PricePair(r) == <<r.date, r.close_price>>

PairSeq(s) == [i \in 1 .. Len(s) |-> PricePair(s[i])]

get_ticker_prices(prices, ticker_symbol, start_date, end_date) ==
    LET rows == PriceRows(prices, ticker_symbol, start_date, end_date)
    IN  {PyList(PairSeq(s)) : s \in OrderedAsc(rows, [r \in rows |-> r.date])}

\* the one row of aggregates
StatsRow(rows) ==
    [record_count |-> Cardinality(rows),
     min_price |-> IF rows = {} THEN PyNone ELSE PyNum(Min({r.close_price : r \in rows})),
     max_price |-> IF rows = {} THEN PyNone ELSE PyNum(Max({r.close_price : r \in rows})),
     avg_price |-> IF rows = {} THEN PyNone
                   ELSE [t |-> "ratio", num |-> Sum(rows, [r \in rows |-> r.close_price]),
                         den |-> Cardinality(rows)],
     start_date |-> IF rows = {} THEN PyNone ELSE PyNum(Min({r.date : r \in rows})),
     end_date |-> IF rows = {} THEN PyNone ELSE PyNum(Max({r.date : r \in rows}))]

\* get_price_stats without the test of record_count
get_price_stats_unguarded(prices, ticker_symbol) ==
    {Some(StatsRow({r \in prices : r.ticker_symbol = ticker_symbol}))}

get_price_stats(prices, ticker_symbol) ==
    LET result == StatsRow({r \in prices : r.ticker_symbol = ticker_symbol})
    IN  IF result.record_count > 0 THEN {Some(result)} ELSE {PyNone}

get_all_tickers(tks) ==
    LET key == [r \in tks |-> SymRank[r.ticker_symbol]]
        IdSymbol(s) == [i \in 1 .. Len(s) |-> <<s[i].ticker_id, s[i].ticker_symbol>>]
    IN  {PyList(IdSymbol(s)) : s \in OrderedAsc(tks, key)}

find_user_by_email(us, email) == FetchOne({r \in us : r.email = email})

find_user_by_id(us, user_id) == FetchOne({r \in us : r.id = user_id})

check_if_user_exists(us, email, username) ==
    LET rows == {r \in us : r.email = email \/ r.username = username}
        field(r) == IF r.email = email THEN "email" ELSE "username"
    IN  IF rows = {} THEN {PyNone} ELSE {PyStr(field(r)) : r \in rows}

\* UniqueViolation with the primary key alone, email and username not UNIQUE
UniqueViolationKeyOnly(us, row) == \E r \in us : r.id = row.id

\* the UNIQUE constraints of users, and its primary key
UniqueViolation(us, row) ==
    \E r \in us : r.email = row.email \/ r.username = row.username \/ r.id = row.id

UserRow(user_id, email, username, first_name, last_name, hashed_password) ==
    [id |-> user_id, email |-> email, username |-> username,
     first_name |-> first_name, last_name |-> last_name,
     hashed_password |-> hashed_password]

\* RETURNING id, email, username, first_name, last_name
Returning(row) ==
    [id |-> row.id, email |-> row.email, username |-> row.username,
     first_name |-> row.first_name, last_name |-> row.last_name]

\* user_id REFERENCES users(id)
ForeignKeyViolation(us, user_id) == ~ \E r \in us : r.id = user_id

\* the row INSERT INTO portfolios stores (every key is present)
PortfolioRow(portfolio_id, user_id, payload, now) ==
    [id |-> portfolio_id, user_id |-> user_id, name |-> payload.name,
     description |-> Get(payload, "description"), created_at |-> now,
     portfolio_amount |-> Real(payload.portfolioAmount),
     lookback_period |-> payload.lookbackPeriod,
     allocations |-> JsonbIn(json_dumps(payload.allocations)),
     expected_value |-> Real(payload.results.expectedValue),
     worst_case |-> Real(payload.results.worstCase),
     best_case |-> Real(payload.results.bestCase),
     expected_return |-> Real(payload.results.expectedReturn),
     prob_of_positive_return |-> Real(payload.results.probOfPositiveReturn),
     prob_of_return_greater_than_10 |-> Real(payload.results.probOfReturnGreaterThan10),
     prob_of_return_greater_than_20 |-> Real(payload.results.probOfReturnGreaterThan20),
     prob_of_loss_greater_than_10 |-> Real(payload.results.probOfLossGreaterThan10),
     prob_of_loss_greater_than_20 |-> Real(payload.results.probOfLossGreaterThan20),
     simulation_data |-> JsonbIn(json_dumps(Get(payload, "simulationData")))]

\* a stored row as the DictCursor hands it to Python
DictRow(row) ==
    [row EXCEPT !.allocations = json_loads(JsonbOut(row.allocations)),
                !.simulation_data = json_loads(JsonbOut(row.simulation_data))]

\* CURRENT_TIMESTAMP of the open transaction, kept as an order: later than
\* every committed row
TxTime(committed) == 1 + Max({0} \cup {r.created_at : r \in committed})

\* DeleteMatch without the owner in the WHERE clause
DeleteMatchAnyOwner(ps, portfolio_id, user_id) == {r \in ps : r.id = portfolio_id}

\* the rows DELETE ... WHERE id = %s AND user_id = %s removes
DeleteMatch(ps, portfolio_id, user_id) ==
    {r \in ps : r.id = portfolio_id /\ r.user_id = user_id}

\* get_portfolios_for_user with ORDER BY created_at ASC
get_portfolios_oldest_first(ps, user_id) ==
    LET rows == {r \in ps : r.user_id = user_id}
    IN  {PyList([i \in 1 .. Len(s) |-> DictRow(s[i])]) :
            s \in OrderedAsc(rows, [r \in rows |-> r.created_at])}

get_portfolios_for_user(ps, user_id) ==
    LET rows == {r \in ps : r.user_id = user_id}
    IN  {PyList([i \in 1 .. Len(s) |-> DictRow(s[i])]) :
            s \in OrderedDesc(rows, [r \in rows |-> r.created_at])}

get_portfolio_by_id(ps, portfolio_id, user_id) ==
    LET rows == {r \in ps : r.id = portfolio_id /\ r.user_id = user_id}
    IN  IF rows = {} THEN {PyNone} ELSE {Some(DictRow(r)) : r \in rows}

(***************************************************************************)
(* State                                                                   *)
(***************************************************************************)
VARIABLES
    tickers,        \* table tickers
    ticker_prices,  \* table ticker_prices
    users,          \* table users, as committed
    portfolios,     \* table portfolios, as committed
    txUsers,        \* table users, as the open transaction sees it
    txPortfolios,   \* table portfolios, as the open transaction sees it
    txn,            \* the connection's transaction: "idle", "open" or "aborted"
    conn,           \* self.conn: "none", "open", "lost" (dropped by the server,
                    \* conn.closed still 0) or "closed" (conn.closed set)
    connId,         \* which handle self.conn is
    dbUp,           \* whether the database accepts connections
    nextUid,        \* uuid4 draws of create_user
    nextPid,        \* uuid4 draws of save_portfolio
    pc,             \* where each thread is in its repository call
    call,           \* the call: operation and arguments
    cur,            \* the handle the thread's cursor belongs to
    got,            \* what the statement fetched (fetchone, rowcount)
    err,            \* the exception raised inside the try block, or "none"
    ret,            \* how the call ended: value returned or exception raised
    before,         \* the committed tables when the call started
    overlap,        \* how many calls of other threads ran during the call
                    \* (0, 1, or 2 for more than one)
    deleted,        \* ids for which delete_portfolio has returned True
    saved           \* what save_portfolio was given for each id it returned

market == <<tickers, ticker_prices>>
store  == <<users, portfolios>>
tx     == <<txUsers, txPortfolios, txn>>
link   == <<conn, connId, dbUp>>
ids    == <<nextUid, nextPid>>
local  == <<pc, call, cur, got, err, ret>>
ghost  == <<before, overlap, deleted, saved>>
vars   == <<market, store, tx, link, ids, local, ghost>>

MarketOps == {"get_ticker_info", "get_ticker_prices", "get_price_stats", "get_all_tickers"}
IdentityOps == {"create_user", "find_user_by_email", "find_user_by_id",
                "check_if_user_exists"}
PortfolioOps == {"save_portfolio", "delete_portfolio", "get_portfolios_for_user",
                 "get_portfolio_by_id"}
\* the operations that commit
WriteOps == {"create_user", "save_portfolio", "delete_portfolio"}
\* the operations whose except clause returns []
ListOps == {"get_ticker_prices", "get_all_tickers", "get_portfolios_for_user"}

\* the subclasses of psycopg2.Error the model raises
PgErrors == {"OperationalError", "IntegrityError", "DatabaseError",
             "InFailedSqlTransaction", "InterfaceError", "ProgrammingError"}

NoCall == [op |-> "none", symbol |-> "", start_date |-> DateNone, end_date |-> DateNone,
           email |-> "", username |-> "", user_id |-> 0, portfolio_id |-> 0,
           payload |-> PayloadCore, uuid |-> 0,
           hashed_password |-> "hash", password |-> "", handler |-> "none", nth |-> 0]

\* how a call ends; by says which statement raised what the caller sees:
\* "reraise" (raise e of the except clause), "rollback" (the rollback inside
\* the except clause) or "uncaught" (no except clause matched)
Returned(v) == [out |-> "return", val |-> v, exc |-> "none", by |-> "none"]
Raised(e, by) == [out |-> "raise", val |-> PyNone, exc |-> e, by |-> by]
NoRet == [out |-> "none", val |-> PyNone, exc |-> "none", by |-> "none"]

NoSnapshot == [users |-> {}, portfolios |-> {}]

\* users present before the process starts
AliceId == MaxCreates + 1
BobId == MaxCreates + 2
Alice == UserRow(AliceId, "a@x.com", "alice", "Alice", "A", "hash-a")
Bob == UserRow(BobId, "b@x.com", "bob", "Bob", "B", "hash-b")

TickerRows == {[ticker_id |-> SymRank[s], ticker_symbol |-> s] : s \in Symbols}
PriceRow(s, d, p) == [ticker_symbol |-> s, date |-> d, close_price |-> p]
\* the price rows a database may hold
PriceUniverse ==
    {PriceRow("AAPL", d, 100 + d) : d \in Dates} \cup
    {PriceRow("AAPL", 2, 90), PriceRow("MSFT", 1, 50)}

\* __init__: the connection string is set and the first connect succeeded
InitWith(us, prices) ==
    /\ tickers = TickerRows
    /\ ticker_prices \in prices
    /\ users = us /\ txUsers = us
    /\ portfolios = {} /\ txPortfolios = {}
    /\ txn = "idle"
    /\ conn = "open" /\ connId = 1 /\ dbUp = TRUE
    /\ nextUid = 1 /\ nextPid = 1
    /\ pc = [t \in Threads |-> "idle"]
    /\ call = [t \in Threads |-> NoCall]
    /\ cur = [t \in Threads |-> 0]
    /\ got = [t \in Threads |-> PyNone]
    /\ err = [t \in Threads |-> "none"]
    /\ ret = [t \in Threads |-> NoRet]
    /\ before = [t \in Threads |-> NoSnapshot]
    /\ overlap = [t \in Threads |-> 0]
    /\ deleted = {}
    /\ saved = {}

(***************************************************************************)
(* The calls a request may make                                            *)
(***************************************************************************)
\* identities a request may carry: no user, the first user created, Alice
UserIdArgs == {0, 1, AliceId}
PortfolioIdArgs == 1 .. MaxSaves

TickerCalls(symbols) ==
    {[NoCall EXCEPT !.op = "get_ticker_info", !.symbol = s] : s \in symbols} \cup
    {[NoCall EXCEPT !.op = "get_price_stats", !.symbol = s] : s \in symbols} \cup
    {[NoCall EXCEPT !.op = "get_all_tickers"]}

PriceCalls(symbols, dates) ==
    {[NoCall EXCEPT !.op = "get_ticker_prices", !.symbol = s,
                    !.start_date = a, !.end_date = b] :
        s \in symbols, a \in dates, b \in dates}

IdentityCalls ==
    {[NoCall EXCEPT !.op = "create_user", !.email = e, !.username = u, !.uuid = nextUid] :
        e \in Emails, u \in Usernames} \cup
    {[NoCall EXCEPT !.op = "check_if_user_exists", !.email = e, !.username = u] :
        e \in Emails, u \in Usernames} \cup
    {[NoCall EXCEPT !.op = "find_user_by_email", !.email = e] : e \in Emails} \cup
    {[NoCall EXCEPT !.op = "find_user_by_id", !.user_id = i] : i \in UserIdArgs}

PortfolioCalls ==
    {[NoCall EXCEPT !.op = "save_portfolio", !.user_id = i, !.payload = p,
                    !.uuid = nextPid] : i \in UserIdArgs, p \in Payloads} \cup
    {[NoCall EXCEPT !.op = "delete_portfolio", !.portfolio_id = k, !.user_id = i] :
        k \in PortfolioIdArgs, i \in UserIdArgs} \cup
    {[NoCall EXCEPT !.op = "get_portfolio_by_id", !.portfolio_id = k, !.user_id = i] :
        k \in PortfolioIdArgs, i \in UserIdArgs} \cup
    {[NoCall EXCEPT !.op = "get_portfolios_for_user", !.user_id = i] : i \in UserIdArgs}

\* every operation of the repository
AllCalls ==
    TickerCalls({"AAPL", "TSLA"}) \cup PriceCalls({"AAPL"}, {DateNone, DateOf(1)})
        \cup IdentityCalls \cup PortfolioCalls

\* the market-data operations, with every argument
MarketCalls == TickerCalls(Symbols \cup {"NONE"}) \cup PriceCalls(Symbols, DateArgs)

\* the operations of two racing sign-up requests
RaceCalls == {c \in IdentityCalls : c.op \in {"create_user", "check_if_user_exists"}}

\* a thread that is inside a repository call
Active(t) == pc[t] \notin {"idle", "done"}

(***************************************************************************)
(* Steps of a repository call                                              *)
(***************************************************************************)
\* Sentinel with  return None  in every except clause
SentinelNone(op) == PyNone

\* the value a read operation returns from its except clause
Sentinel(op) == IF op \in ListOps THEN PyList(<<>>) ELSE PyNone

\* a request enters a repository operation; uuid.uuid4() is drawn here
Call(t, calls) ==
    /\ pc[t] = "idle"
    /\ \E c \in calls :
        /\ c.op = "create_user" => nextUid <= MaxCreates
        /\ c.op = "save_portfolio" => nextPid <= MaxSaves
        /\ call' = [call EXCEPT ![t] = c]
        /\ nextUid' = IF c.op = "create_user" THEN nextUid + 1 ELSE nextUid
        /\ nextPid' = IF c.op = "save_portfolio" THEN nextPid + 1 ELSE nextPid
    /\ pc' = [pc EXCEPT ![t] = "cursor"]
    /\ before' = [before EXCEPT ![t] = [users |-> users, portfolios |-> portfolios]]
    /\ overlap' = [o \in Threads |->
                     IF o = t THEN Cardinality({x \in Threads \ {t} : Active(x)})
                     ELSE IF Active(o) /\ overlap[o] < 2 THEN overlap[o] + 1
                     ELSE overlap[o]]
    /\ UNCHANGED <<market, store, tx, link, cur, got, err, ret, deleted, saved>>

\* connect without  self.conn = None  before the attempt
connectKeepsHandle(c, id, up) ==
    [closedOld |-> c \in {"open", "lost"},
     conn |-> IF up THEN "open" ELSE IF c = "none" THEN "none" ELSE "closed",
     connId |-> IF up THEN id + 1 ELSE id,
     exc |-> IF up THEN "none" ELSE "OperationalError"]

\* connect(): drop the old handle, then psycopg2.connect
connect(c, id, up) ==
    [closedOld |-> c \in {"open", "lost"},
     conn |-> IF up THEN "open" ELSE "none",
     connId |-> IF up THEN id + 1 ELSE id,
     exc |-> IF up THEN "none" ELSE "OperationalError"]

\* Caught with  except Exception  in the write operations
CaughtByAnyClause(t, e) ==
    /\ err' = [err EXCEPT ![t] = e]
    /\ IF call[t].op \in WriteOps
       THEN /\ pc' = [pc EXCEPT ![t] = "except"]
            /\ ret' = ret
       ELSE /\ pc' = [pc EXCEPT ![t] = "done"]
            /\ ret' = [ret EXCEPT ![t] = Returned(Sentinel(call[t].op))]

\* the try block of a call raised e before anything was committed: reads catch
\* Exception and return their sentinel; writes catch psycopg2.Error and go on
\* to roll back, and let every other exception through
Caught(t, e) ==
    /\ err' = [err EXCEPT ![t] = e]
    /\ IF call[t].op \notin WriteOps
       THEN /\ pc' = [pc EXCEPT ![t] = "done"]
            /\ ret' = [ret EXCEPT ![t] = Returned(Sentinel(call[t].op))]
       ELSE IF e \in PgErrors
       THEN /\ pc' = [pc EXCEPT ![t] = "except"]
            /\ ret' = ret
       ELSE /\ pc' = [pc EXCEPT ![t] = "done"]
            /\ ret' = [ret EXCEPT ![t] = Raised(e, "uncaught")]

\* Stale with the test of closed inverted:  not self.conn.closed
StaleUnlessClosed(c) == c \in {"none", "open", "lost"}

\* self.conn is None or self.conn.closed
Stale(c) == c \in {"none", "closed"}

\* _get_cursor: reconnect when the handle is None or closed, then open a cursor
_get_cursor(t) ==
    /\ pc[t] = "cursor"
    /\ IF Stale(conn)
       THEN LET c == connect(conn, connId, dbUp) IN
            /\ conn' = c.conn
            /\ connId' = c.connId
            /\ txn' = "idle" /\ txUsers' = users /\ txPortfolios' = portfolios
            /\ IF c.exc = "none"
               THEN /\ cur' = [cur EXCEPT ![t] = c.connId]
                    /\ pc' = [pc EXCEPT ![t] = "exec"]
                    /\ UNCHANGED <<err, ret>>
               ELSE /\ Caught(t, c.exc)
                    /\ cur' = cur
       ELSE /\ cur' = [cur EXCEPT ![t] = connId]
            /\ pc' = [pc EXCEPT ![t] = "exec"]
            /\ UNCHANGED <<conn, connId, tx, err, ret>>
    /\ UNCHANGED <<market, store, dbUp, ids, call, got, ghost>>

(***************************************************************************)
(* Statements                                                              *)
(***************************************************************************)
\* what a statement does: the error it raises or the value fetched from it,
\* and the tables as the transaction then sees them
Outcome(exc, val, us, ps) == [exc |-> exc, val |-> val, users |-> us, portfolios |-> ps]
Fetched(vals, us, ps) == {Outcome("none", v, us, ps) : v \in vals}

\* INSERT INTO users ... RETURNING
create_user(us, ps, c) ==
    LET row == UserRow(c.uuid, c.email, c.username, "First", "Last", c.hashed_password)
    IN  IF UniqueViolation(us, row)
        THEN {Outcome("IntegrityError", PyNone, us, ps)}
        ELSE {Outcome("none", Some(Returning(row)), us \cup {row}, ps)}

\* INSERT INTO portfolios ... RETURNING id
save_portfolio(us, ps, c, now) ==
    IF ForeignKeyViolation(us, c.user_id)
    THEN {Outcome("IntegrityError", PyNone, us, ps)}
    ELSE LET row == PortfolioRow(c.uuid, c.user_id, c.payload, now)
         IN  {Outcome("none", Some([id |-> row.id]), us, ps \cup {row})}

\* DELETE FROM portfolios WHERE id = %s AND user_id = %s; cursor.rowcount
delete_portfolio(us, ps, c) ==
    LET hit == DeleteMatch(ps, c.portfolio_id, c.user_id)
    IN  {Outcome("none", PyNum(Cardinality(hit)), us, ps \ hit)}

\* the statement of call c on tables us, ps
Statement(c, us, ps) ==
    CASE c.op = "get_ticker_info" ->
            Fetched(get_ticker_info(tickers, c.symbol), us, ps)
      [] c.op = "get_ticker_prices" ->
            Fetched(get_ticker_prices(ticker_prices, c.symbol, c.start_date, c.end_date),
                    us, ps)
      [] c.op = "get_price_stats" ->
            Fetched(get_price_stats(ticker_prices, c.symbol), us, ps)
      [] c.op = "get_all_tickers" -> Fetched(get_all_tickers(tickers), us, ps)
      [] c.op = "find_user_by_email" -> Fetched(find_user_by_email(us, c.email), us, ps)
      [] c.op = "find_user_by_id" -> Fetched(find_user_by_id(us, c.user_id), us, ps)
      [] c.op = "check_if_user_exists" ->
            Fetched(check_if_user_exists(us, c.email, c.username), us, ps)
      [] c.op = "get_portfolios_for_user" ->
            Fetched(get_portfolios_for_user(ps, c.user_id), us, ps)
      [] c.op = "get_portfolio_by_id" ->
            Fetched(get_portfolio_by_id(ps, c.portfolio_id, c.user_id), us, ps)
      [] c.op = "create_user" -> create_user(us, ps, c)
      [] c.op = "save_portfolio" -> save_portfolio(us, ps, c, TxTime(portfolios))
      [] c.op = "delete_portfolio" -> delete_portfolio(us, ps, c)

\* the %s that psycopg2 finds in the statement text of a call, the ones inside
\* an SQL comment included
Placeholders(c) ==
    CASE c.op = "get_ticker_info" -> 2
      [] c.op = "get_ticker_prices" ->
            1 + (IF Truthy(c.start_date) THEN 1 ELSE 0)
              + (IF Truthy(c.end_date) THEN 1 ELSE 0)
      [] c.op = "get_price_stats" -> 1
      [] c.op = "get_all_tickers" -> 0
      [] c.op = "create_user" -> 6
      [] c.op = "find_user_by_email" -> 1
      [] c.op = "find_user_by_id" -> 1
      [] c.op = "check_if_user_exists" -> 3
      [] c.op = "save_portfolio" -> 17
      [] c.op = "delete_portfolio" -> 2
      [] c.op = "get_portfolios_for_user" -> 1
      [] c.op = "get_portfolio_by_id" -> 2

\* the parameters the call passes to cursor.execute
Parameters(c) ==
    CASE c.op = "get_ticker_info" -> 1
      [] c.op = "get_ticker_prices" ->
            1 + (IF Truthy(c.start_date) THEN 1 ELSE 0)
              + (IF Truthy(c.end_date) THEN 1 ELSE 0)
      [] c.op = "get_price_stats" -> 1
      [] c.op = "get_all_tickers" -> 0
      [] c.op = "create_user" -> 6
      [] c.op = "find_user_by_email" -> 1
      [] c.op = "find_user_by_id" -> 1
      [] c.op = "check_if_user_exists" -> 4
      [] c.op = "save_portfolio" -> 17
      [] c.op = "delete_portfolio" -> 2
      [] c.op = "get_portfolios_for_user" -> 1
      [] c.op = "get_portfolio_by_id" -> 2

\* a statement the server gives up on (cancelled, timed out, out of resources)
ServerFailure(us, ps) == {Outcome("DatabaseError", PyNone, us, ps)}

\* ReturnValue with delete_portfolio returning rowcount >= 0
ReturnValueAnyCount(c, fetched) ==
    CASE c.op = "create_user" -> fetched
      [] c.op = "save_portfolio" -> IF IsNone(fetched) THEN PyNone ELSE PyNum(fetched.v.id)
      [] c.op = "delete_portfolio" -> PyBool(fetched.v >= 0)

\* what the write operations return after the commit
ReturnValue(c, fetched) ==
    CASE c.op = "create_user" -> fetched
      [] c.op = "save_portfolio" -> IF IsNone(fetched) THEN PyNone ELSE PyNum(fetched.v.id)
      [] c.op = "delete_portfolio" -> PyBool(fetched.v > 0)

\* cursor.execute and the fetch, up to the commit
Execute(t) ==
    /\ pc[t] = "exec"
    /\ LET c == call[t] IN
       IF c.op = "save_portfolio" /\ MissingKey(c.payload)
       THEN \* KeyError while the parameters are built
            /\ Caught(t, "KeyError")
            /\ UNCHANGED <<tx, conn, got>>
       ELSE IF cur[t] # connId \/ conn \in {"none", "closed"}
       THEN \* the cursor's connection has been closed
            /\ Caught(t, "InterfaceError")
            /\ UNCHANGED <<tx, conn, got>>
       ELSE IF Placeholders(c) # Parameters(c)
       THEN \* the parameters do not fit the statement: nothing is sent
            /\ Caught(t, "ProgrammingError")
            /\ UNCHANGED <<tx, conn, got>>
       ELSE IF conn = "lost"
       THEN \* the server is gone: psycopg2 marks the handle closed
            /\ conn' = "closed"
            /\ Caught(t, "OperationalError")
            /\ UNCHANGED <<tx, got>>
       ELSE IF txn = "aborted"
       THEN /\ Caught(t, "InFailedSqlTransaction")
            /\ UNCHANGED <<tx, conn, got>>
       ELSE \E o \in Statement(c, txUsers, txPortfolios)
                       \cup ServerFailure(txUsers, txPortfolios) :
            /\ conn' = conn
            /\ IF o.exc # "none"
               THEN /\ txn' = "aborted"
                    /\ txUsers' = users /\ txPortfolios' = portfolios
                    /\ Caught(t, o.exc)
                    /\ got' = got
               ELSE /\ txn' = "open"
                    /\ txUsers' = o.users /\ txPortfolios' = o.portfolios
                    /\ err' = err
                    /\ IF c.op \in WriteOps
                       THEN /\ got' = [got EXCEPT ![t] = o.val]
                            /\ pc' = [pc EXCEPT ![t] = "commit"]
                            /\ ret' = ret
                       ELSE /\ got' = got
                            /\ pc' = [pc EXCEPT ![t] = "done"]
                            /\ ret' = [ret EXCEPT ![t] = Returned(o.val)]
    /\ UNCHANGED <<market, store, connId, dbUp, ids, call, cur, ghost>>

\* self.conn.commit() and the return statement of a write operation
Commit(t) ==
    /\ pc[t] = "commit"
    /\ CASE conn = "none" ->
            \* None has no commit: AttributeError, which no except clause matches
            /\ err' = [err EXCEPT ![t] = "AttributeError"]
            /\ ret' = [ret EXCEPT ![t] = Raised("AttributeError", "uncaught")]
            /\ pc' = [pc EXCEPT ![t] = "done"]
            /\ UNCHANGED <<store, tx, conn, deleted, saved>>
         [] conn = "closed" ->
            /\ err' = [err EXCEPT ![t] = "InterfaceError"]
            /\ pc' = [pc EXCEPT ![t] = "except"]
            /\ UNCHANGED <<store, tx, conn, ret, deleted, saved>>
         [] conn = "lost" ->
            /\ conn' = "closed"
            /\ err' = [err EXCEPT ![t] = "OperationalError"]
            /\ pc' = [pc EXCEPT ![t] = "except"]
            /\ UNCHANGED <<store, tx, ret, deleted, saved>>
         [] conn = "open" ->
            \* COMMIT of an aborted transaction is a rollback, without error
            /\ users' = IF txn = "aborted" THEN users ELSE txUsers
            /\ portfolios' = IF txn = "aborted" THEN portfolios ELSE txPortfolios
            /\ txUsers' = users' /\ txPortfolios' = portfolios'
            /\ txn' = "idle"
            /\ ret' = [ret EXCEPT ![t] = Returned(ReturnValue(call[t], got[t]))]
            /\ deleted' = IF call[t].op = "delete_portfolio" /\ got[t].v > 0
                          THEN deleted \cup {call[t].portfolio_id} ELSE deleted
            /\ saved' = IF call[t].op = "save_portfolio" /\ ~IsNone(got[t])
                        THEN saved \cup {[id |-> got[t].v.id, user_id |-> call[t].user_id,
                                          payload |-> call[t].payload]}
                        ELSE saved
            /\ pc' = [pc EXCEPT ![t] = "done"]
            /\ UNCHANGED <<conn, err>>
    /\ UNCHANGED <<market, connId, dbUp, ids, call, cur, got, before, overlap>>

\* except psycopg2.Error as e: self.conn.rollback(); raise e
Rollback(t) ==
    /\ pc[t] = "except"
    /\ CASE conn = "none" ->
            /\ ret' = [ret EXCEPT ![t] = Raised("AttributeError", "rollback")]
            /\ UNCHANGED <<tx, conn>>
         [] conn = "closed" ->
            /\ ret' = [ret EXCEPT ![t] = Raised("InterfaceError", "rollback")]
            /\ UNCHANGED <<tx, conn>>
         [] conn = "lost" ->
            /\ conn' = "closed"
            /\ ret' = [ret EXCEPT ![t] = Raised("OperationalError", "rollback")]
            /\ UNCHANGED tx
         [] conn = "open" ->
            /\ txUsers' = users /\ txPortfolios' = portfolios /\ txn' = "idle"
            /\ ret' = [ret EXCEPT ![t] = Raised(err[t], "reraise")]
            /\ conn' = conn
    /\ pc' = [pc EXCEPT ![t] = "done"]
    /\ UNCHANGED <<market, store, connId, dbUp, ids, call, cur, got, err, ghost>>

\* the call is over and its result handed to the request handler
Return(t) ==
    /\ pc[t] = "done"
    /\ pc' = [pc EXCEPT ![t] = "idle"]
    /\ call' = [call EXCEPT ![t] = NoCall]
    /\ cur' = [cur EXCEPT ![t] = 0]
    /\ got' = [got EXCEPT ![t] = PyNone]
    /\ err' = [err EXCEPT ![t] = "none"]
    /\ ret' = [ret EXCEPT ![t] = NoRet]
    /\ before' = [before EXCEPT ![t] = NoSnapshot]
    /\ overlap' = [overlap EXCEPT ![t] = 0]
    /\ UNCHANGED <<market, store, tx, link, ids, deleted, saved>>

(***************************************************************************)
(* The database server                                                     *)
(***************************************************************************)
\* the server goes away: an open connection is dropped with its transaction
DbDown ==
    /\ dbUp
    /\ conn = "open" => connId < MaxConn
    /\ dbUp' = FALSE
    /\ conn' = IF conn = "open" THEN "lost" ELSE conn
    /\ txn' = "idle" /\ txUsers' = users /\ txPortfolios' = portfolios
    /\ UNCHANGED <<market, store, connId, ids, local, ghost>>

\* the server accepts connections again
DbUp ==
    /\ ~dbUp
    /\ dbUp' = TRUE
    /\ UNCHANGED <<market, store, tx, conn, connId, ids, local, ghost>>

(***************************************************************************)
(* Specifications                                                          *)
(***************************************************************************)
\* one request at a time, every operation
Init == InitWith({Alice}, {PriceUniverse})

Next ==
    \/ \E t \in SeqThreads :
          \/ Call(t, AllCalls)
          \/ _get_cursor(t)
          \/ Execute(t)
          \/ Commit(t)
          \/ Rollback(t)
          \/ Return(t)
    \/ DbDown
    \/ DbUp

Spec == Init /\ [][Next]_vars

\* one request at a time, the market-data operations on any price table
InitMarket == InitWith({}, SUBSET PriceUniverse)

NextMarket ==
    \/ \E t \in SeqThreads :
          \/ Call(t, MarketCalls)
          \/ _get_cursor(t)
          \/ Execute(t)
          \/ Return(t)
    \/ DbDown
    \/ DbUp

SpecMarket == InitMarket /\ [][NextMarket]_vars

\* two requests at a time on the shared connection
InitRace == InitWith({}, {PriceUniverse})

NextRace ==
    \E t \in Threads :
        \/ Call(t, RaceCalls)
        \/ _get_cursor(t)
        \/ Execute(t)
        \/ Commit(t)
        \/ Rollback(t)
        \/ Return(t)

SpecRace == InitRace /\ [][NextRace]_vars

(***************************************************************************)
(* The request handlers of api_server.py                                   *)
(***************************************************************************)
Passwords == {"pw-a", "pw-b"}

\* bcrypt, without the salt
generate_password_hash(password) ==
    CASE password = "pw-a" -> "hash-a"
      [] password = "pw-b" -> "hash-b"
      [] OTHER -> "hash"

check_password_hash(pw_hash, password) == pw_hash = generate_password_hash(password)

\* the dict comprehension of the handlers without its filter
Unstripped(row) == row

\* {key: user[key] for key in user.keys() if key != 'hashed_password'}
Strip(row) == [key \in DOMAIN row \ {"hashed_password"} |-> row[key]]

AuthHandlers == {"signup", "login", "get_current_user"}

\* a request as its handler makes its first repository call
First(c, handler) == [c EXCEPT !.handler = handler, !.nth = 1]

\* the identities a verified token may carry
Identities == {1, AliceId}

ApiCalls ==
    {First([NoCall EXCEPT !.op = "check_if_user_exists", !.email = e, !.username = u,
                          !.password = p], "signup") :
        e \in Emails, u \in Usernames, p \in {"pw-b"}} \cup
    {First([NoCall EXCEPT !.op = "find_user_by_email", !.email = e, !.password = p],
           "login") : e \in Emails, p \in Passwords} \cup
    {First([NoCall EXCEPT !.op = "find_user_by_id", !.user_id = i], "get_current_user") :
        i \in Identities} \cup
    {First([NoCall EXCEPT !.op = "save_portfolio", !.user_id = i, !.payload = p,
                          !.uuid = nextPid], "save_new_portfolio") :
        i \in Identities, p \in {PayloadCore, PayloadShort}} \cup
    {First([NoCall EXCEPT !.op = "get_portfolios_for_user", !.user_id = i],
           "get_user_portfolios") : i \in Identities} \cup
    {First([NoCall EXCEPT !.op = "get_portfolio_by_id", !.portfolio_id = k, !.user_id = i],
           "get_portfolio_by_id") : k \in PortfolioIdArgs, i \in Identities} \cup
    {First([NoCall EXCEPT !.op = "delete_portfolio", !.portfolio_id = k, !.user_id = i],
           "delete_portfolio_by_id") : k \in PortfolioIdArgs, i \in Identities} \cup
    {First([NoCall EXCEPT !.op = "get_all_tickers"], h) :
        h \in {"get_all_tickers", "search_tickers"}} \cup
    {First([NoCall EXCEPT !.op = "get_ticker_info", !.symbol = "AAPL"], "get_ticker_info"),
     First([NoCall EXCEPT !.op = "get_ticker_prices", !.symbol = "AAPL"],
           "get_ticker_prices"),
     First([NoCall EXCEPT !.op = "get_price_stats", !.symbol = "AAPL"],
           "get_ticker_stats")}

\* the requests a handler answers without a repository call: health_check,
\* login without a password, save_new_portfolio without a body, search_tickers
\* without q
NoCallHandlers == {"health_check", "login", "save_new_portfolio", "search_tickers"}

\* a request enters its handler, which makes its first repository call
Request(t) == Call(t, {c \in ApiCalls : c.handler = "signup" => nextUid <= MaxCreates})

\* a request is answered by its handler alone
Reject(t) ==
    /\ pc[t] = "idle"
    /\ \E h \in NoCallHandlers :
          call' = [call EXCEPT ![t] = [NoCall EXCEPT !.handler = h]]
    /\ pc' = [pc EXCEPT ![t] = "done"]
    /\ UNCHANGED <<market, store, tx, link, ids, cur, got, err, ret, ghost>>

\* Continues for a signup that answers right after check_if_user_exists
ContinuesNever(t) == FALSE

\* signup after check_if_user_exists: neither field was reported as taken
Continues(t) ==
    /\ pc[t] = "done"
    /\ call[t].handler = "signup" /\ call[t].op = "check_if_user_exists"
    /\ ret[t].val \notin {PyStr("email"), PyStr("username")}

\* signup goes on to db.create_user with the hash of the password
Continue(t) ==
    /\ Continues(t)
    /\ call' = [call EXCEPT ![t] =
                  [@ EXCEPT !.op = "create_user", !.uuid = nextUid, !.nth = @ + 1,
                            !.hashed_password = generate_password_hash(call[t].password)]]
    /\ nextUid' = nextUid + 1
    /\ nextPid' = nextPid
    /\ pc' = [pc EXCEPT ![t] = "cursor"]
    /\ cur' = [cur EXCEPT ![t] = 0]
    /\ got' = [got EXCEPT ![t] = PyNone]
    /\ err' = [err EXCEPT ![t] = "none"]
    /\ ret' = [ret EXCEPT ![t] = NoRet]
    /\ before' = [before EXCEPT ![t] = [users |-> users, portfolios |-> portfolios]]
    /\ UNCHANGED <<market, store, tx, link, overlap, deleted, saved>>

\* the handler returns its response
Respond(t) == ~Continues(t) /\ Return(t)

\* the status and the 'user' of the response of signup, login and /api/auth/me
Response(status, user) == [status |-> status, user |-> user]

AuthResponse(t) ==
    LET c == call[t]
        r == ret[t]
    IN  CASE c.handler = "signup" /\ c.op = "check_if_user_exists" ->
                Response(409, PyNone)
          [] c.handler = "signup" /\ c.op = "create_user" ->
                IF r.out = "return"
                THEN IF IsNone(r.val) THEN Response(500, PyNone)
                     ELSE Response(201, Some(Strip(r.val.v)))
                ELSE IF r.exc = "IntegrityError" THEN Response(409, PyNone)
                     ELSE Response(500, PyNone)
          [] c.handler = "login" ->
                IF c.op = "none" THEN Response(400, PyNone)
                ELSE IF /\ ~IsNone(r.val)
                        /\ check_password_hash(r.val.v.hashed_password, c.password)
                     THEN Response(200, Some(Strip(r.val.v)))
                     ELSE Response(401, PyNone)
          [] c.handler = "get_current_user" ->
                IF IsNone(r.val) THEN Response(404, PyNone)
                ELSE Response(200, Some(Strip(r.val.v)))

\* one request at a time, through the handlers
InitApi == InitWith({Alice}, {PriceUniverse})

NextApi ==
    \/ \E t \in SeqThreads :
          \/ Request(t)
          \/ Reject(t)
          \/ _get_cursor(t)
          \/ Execute(t)
          \/ Commit(t)
          \/ Rollback(t)
          \/ Continue(t)
          \/ Respond(t)
    \/ DbDown
    \/ DbUp

SpecApi == InitApi /\ [][NextApi]_vars

(***************************************************************************)
(* Claims                                                                  *)
(***************************************************************************)
\* a call that has ended and met no error on the way
Clean(t) == pc[t] = "done" /\ err[t] = "none"

\* the rows of the id of call c that belonged to someone else when it started
ForeignRows(t) ==
    {r \in before[t].portfolios :
        r.id = call[t].portfolio_id /\ r.user_id # call[t].user_id}

\* C1: for a portfolio P of user A and another user B, get_portfolio_by_id(P.id, B)
\* returns None and delete_portfolio(P.id, B) returns False, as for an id that
\* does not exist, and P stays stored and fetchable by A.
OwnershipIsolation ==
    \A t \in Threads :
        (pc[t] = "done" /\ ForeignRows(t) # {}) =>
            /\ call[t].op = "get_portfolio_by_id" => ret[t] = Returned(PyNone)
            /\ call[t].op = "delete_portfolio" =>
                /\ ret[t].out = "return" => ret[t] = Returned(PyBool(FALSE))
                /\ portfolios = before[t].portfolios
                /\ \A r \in ForeignRows(t) :
                      get_portfolio_by_id(portfolios, r.id, r.user_id)
                          = {Some(DictRow(r))}

\* C1 witness: a delete of another user's portfolio has run and committed
OwnershipIsolationWitness ==
    \E t \in Threads :
        /\ Clean(t) /\ call[t].op = "delete_portfolio"
        /\ ForeignRows(t) # {}
        /\ ret[t].out = "return"

\* the rows delete_portfolio(pid, u) was entitled to when it started
OwnRows(t) ==
    {r \in before[t].portfolios :
        r.id = call[t].portfolio_id /\ r.user_id = call[t].user_id}

\* the ids a list result holds
ListIds(val) == {val.v[i].id : i \in 1 .. Len(val.v)}

\* C4: delete_portfolio(pid, u) returns True exactly when a row (pid, u) existed
\* just before the call, and then removes that row and no other; once it has
\* returned True for pid, no later get or list ever shows pid again.
DeleteExact ==
    /\ \A t \in Threads :
          (pc[t] = "done" /\ call[t].op = "delete_portfolio" /\ ret[t].out = "return") =>
              /\ ret[t].val = PyBool(OwnRows(t) # {})
              /\ Cardinality(OwnRows(t)) <= 1
              /\ portfolios = before[t].portfolios \ OwnRows(t)
    /\ \A k \in deleted :
          /\ ~ \E r \in portfolios \cup txPortfolios : r.id = k
          /\ \A t \in Threads :
                /\ (pc[t] = "done" /\ call[t].op = "get_portfolio_by_id"
                        /\ call[t].portfolio_id = k) => ret[t] = Returned(PyNone)
                /\ (pc[t] = "done" /\ call[t].op = "get_portfolios_for_user") =>
                        k \notin ListIds(ret[t].val)

\* C4 witness: a get of an id whose delete returned True has run
DeleteExactWitness ==
    \E t \in Threads :
        /\ Clean(t) /\ call[t].op = "get_portfolio_by_id"
        /\ call[t].portfolio_id \in deleted
        /\ call[t].user_id = AliceId

\* C8: get_portfolios_for_user(u) returns exactly the stored portfolios of u,
\* each once, the later created first.
ListExact ==
    \A t \in Threads :
        (Clean(t) /\ call[t].op = "get_portfolios_for_user") =>
            LET rows == {r \in portfolios : r.user_id = call[t].user_id}
                s == ret[t].val.v
            IN  /\ Len(s) = Cardinality(rows)
                /\ {s[i] : i \in 1 .. Len(s)} = {DictRow(r) : r \in rows}
                /\ \A i, j \in 1 .. Len(s) :
                      i < j => /\ s[i].created_at >= s[j].created_at
                               /\ s[i].id > s[j].id

\* C8 witness: a list of a user with two portfolios has run
ListExactWitness ==
    \E t \in Threads :
        /\ Clean(t) /\ call[t].op = "get_portfolios_for_user"
        /\ Len(ret[t].val.v) = 2

\* C3 as claimed: get_portfolio_by_id of an id save_portfolio returned gives back
\* the allocations and simulationData of the payload (None when absent) and the
\* name, amount, lookback period and nine result fields as supplied.
RoundTrip ==
    \A t \in Threads : \A sv \in saved :
        (/\ Clean(t) /\ call[t].op = "get_portfolio_by_id"
         /\ call[t].portfolio_id = sv.id /\ call[t].user_id = sv.user_id
         /\ sv.id \notin deleted) =>
            /\ ~IsNone(ret[t].val)
            /\ LET row == ret[t].val.v
                   p == sv.payload
               IN  /\ row.allocations = p.allocations
                   /\ row.simulation_data = Get(p, "simulationData")
                   /\ row.name = p.name
                   /\ row.portfolio_amount = p.portfolioAmount
                   /\ row.lookback_period = p.lookbackPeriod
                   /\ row.expected_value = p.results.expectedValue
                   /\ row.worst_case = p.results.worstCase
                   /\ row.best_case = p.results.bestCase
                   /\ row.expected_return = p.results.expectedReturn
                   /\ row.prob_of_positive_return = p.results.probOfPositiveReturn
                   /\ row.prob_of_return_greater_than_10
                          = p.results.probOfReturnGreaterThan10
                   /\ row.prob_of_return_greater_than_20
                          = p.results.probOfReturnGreaterThan20
                   /\ row.prob_of_loss_greater_than_10
                          = p.results.probOfLossGreaterThan10
                   /\ row.prob_of_loss_greater_than_20
                          = p.results.probOfLossGreaterThan20

\* the stored rows with date in [start, end] of the symbol of a price query,
\* a bound that is None being no bound
Wanted(c) ==
    {r \in ticker_prices :
        /\ r.ticker_symbol = c.symbol
        /\ (c.start_date.k = "date" => c.start_date.d <= r.date)
        /\ (c.end_date.k = "date" => r.date <= c.end_date.d)}

\* C5: get_ticker_prices(symbol, start, end) returns exactly the stored rows of
\* the symbol with start <= date <= end, ascending by date, an omitted bound
\* being no bound; rows of other symbols are never returned.
PricesExact ==
    \A t \in Threads :
        (/\ Clean(t) /\ call[t].op = "get_ticker_prices"
         /\ call[t].start_date.k \in {"None", "date"}
         /\ call[t].end_date.k \in {"None", "date"}) =>
            LET s == ret[t].val.v
                want == Wanted(call[t])
            IN  /\ Len(s) = Cardinality(want)
                /\ {s[i] : i \in 1 .. Len(s)} = {<<r.date, r.close_price>> : r \in want}
                /\ \A i, j \in 1 .. Len(s) : i < j => s[i][1] <= s[j][1]

\* C5 witness: a query with both bounds has returned several rows of the
\* symbol and left out others, of the symbol and of another symbol
PricesExactWitness ==
    \E t \in Threads :
        /\ Clean(t) /\ call[t].op = "get_ticker_prices"
        /\ call[t].start_date.k = "date" /\ call[t].end_date.k = "date"
        /\ Len(ret[t].val.v) >= 2
        /\ \E r \in ticker_prices :
              r.ticker_symbol = call[t].symbol /\ r.date = call[t].start_date.d
        /\ \E r \in ticker_prices :
              r.ticker_symbol = call[t].symbol /\ r.date < call[t].start_date.d
        /\ \E r \in ticker_prices : r.ticker_symbol # call[t].symbol

\* the stored price rows of the symbol of the call
SymbolRows(t) == {r \in ticker_prices : r.ticker_symbol = call[t].symbol}

\* C6: for a symbol without price rows get_ticker_prices returns an empty list
\* and get_price_stats returns None, neither raising; get_price_stats returns a
\* record only when the symbol has more than zero rows.
NoDataIsNotAnError ==
    \A t \in Threads :
        pc[t] = "done" =>
            /\ (call[t].op = "get_ticker_prices" /\ SymbolRows(t) = {}) =>
                    ret[t] = Returned(PyList(<<>>))
            /\ (call[t].op = "get_price_stats" /\ SymbolRows(t) = {}) =>
                    ret[t] = Returned(PyNone)
            /\ call[t].op = "get_price_stats" =>
                    /\ ret[t].out = "return"
                    /\ ~IsNone(ret[t].val) =>
                          /\ SymbolRows(t) # {}
                          /\ ret[t].val.v.record_count = Cardinality(SymbolRows(t))

\* C6 witness: the statistics query has run for a symbol without rows
NoDataIsNotAnErrorWitness ==
    \E t \in Threads :
        /\ Clean(t) /\ call[t].op = "get_price_stats"
        /\ SymbolRows(t) = {} /\ ticker_prices # {}

\* a call that has ended without a failure of the connection or the server
Served(t) ==
    /\ pc[t] = "done"
    /\ err[t] \notin {"OperationalError", "InterfaceError", "DatabaseError",
                      "InFailedSqlTransaction"}

\* C7 as claimed: check_if_user_exists returns 'email' whenever a stored user
\* has the email, 'username' only when none has the email but one has the
\* username, and None only when neither is stored.
EmailFirst ==
    \A t \in Threads :
        (Served(t) /\ call[t].op = "check_if_user_exists") =>
            ret[t] = Returned(
                IF \E r \in users : r.email = call[t].email THEN PyStr("email")
                ELSE IF \E r \in users : r.username = call[t].username
                     THEN PyStr("username")
                     ELSE PyNone)

\* the call found no usable handle and connect() raised
ConnectFailed(t) == pc[t] = "done" /\ cur[t] = 0 /\ err[t] = "OperationalError"

\* C9 as claimed: when the handle is closed or absent and connect() fails, the
\* connection error reaches the caller of the repository operation, read or
\* write.
ConnectFailurePropagates ==
    \A t \in Threads :
        ConnectFailed(t) => ret[t].out = "raise" /\ ret[t].exc = "OperationalError"

\* the change a write that returned has made is in the committed tables
Committed(t) ==
    CASE call[t].op = "create_user" ->
            \E r \in users : r.id = call[t].uuid /\ r.email = call[t].email
      [] call[t].op = "save_portfolio" ->
            \E r \in portfolios : r.id = call[t].uuid /\ r.user_id = call[t].user_id
      [] call[t].op = "delete_portfolio" ->
            ~ \E r \in portfolios :
                  r.id = call[t].portfolio_id /\ r.user_id = call[t].user_id

\* C10 as claimed: a mutating operation that returns has committed its change;
\* one that met a database error, also while the connection or the cursor was
\* acquired, has rolled back, left users and portfolios as they were and raised
\* that same error.
CommitOrRollback ==
    \A t \in Threads :
        (pc[t] = "done" /\ call[t].op \in WriteOps) =>
            /\ ret[t].out = "return" => Committed(t)
            /\ err[t] \in PgErrors =>
                  /\ ret[t] = Raised(err[t], "reraise")
                  /\ txn = "idle"
                  /\ users = before[t].users /\ portfolios = before[t].portfolios

\* a create_user call whose email or username was stored when it started
Taken(t) ==
    \E r \in before[t].users :
        r.email = call[t].email \/ r.username = call[t].username

\* two create_user calls with one email, neither stored when the calls started,
\* that overlapped each other and nothing else and met no server failure
Raced(a, b) ==
    /\ a # b
    /\ pc[a] = "done" /\ pc[b] = "done"
    /\ call[a].op = "create_user" /\ call[b].op = "create_user"
    /\ call[a].email = call[b].email
    /\ ~Taken(a) /\ ~Taken(b)
    /\ overlap[a] = 1 /\ overlap[b] = 1
    /\ {err[a], err[b]} \subseteq {"none", "IntegrityError"}

\* C2: create_user with an email or username already stored raises the conflict
\* error and adds no row, with or without a check_if_user_exists before it; of
\* two interleaved create_user calls with the same email exactly one returns;
\* users never holds two rows with one email or one username.
UsersUnique ==
    /\ \A r1, r2 \in users \cup txUsers :
          (r1.email = r2.email \/ r1.username = r2.username) => r1 = r2
    /\ \A t \in Threads :
          (pc[t] = "done" /\ call[t].op = "create_user" /\ Taken(t)) =>
              /\ ret[t].out = "raise"
              /\ err[t] \notin {"DatabaseError", "InFailedSqlTransaction"} =>
                    ret[t] = Raised("IntegrityError", "reraise")
              /\ ~ \E r \in users : r.id = call[t].uuid
    /\ \A a, b \in Threads :
          Raced(a, b) =>
              /\ Cardinality({t \in {a, b} : ret[t].out = "return"}) = 1
              /\ Cardinality({t \in {a, b} :
                                 ret[t] = Raised("IntegrityError", "reraise")}) = 1

\* C2 witness: two create_user calls with the same email and different
\* usernames have raced to their end
UsersUniqueWitness ==
    \E a, b \in Threads :
        /\ Raced(a, b)
        /\ call[a].username # call[b].username
        /\ ret[a].out = "return"

\* a save_portfolio call whose payload lacks a required field has ended
Invalid(t) ==
    /\ pc[t] = "done" /\ call[t].op = "save_portfolio"
    /\ \/ RequiredKeys \ DOMAIN call[t].payload # {}
       \/ ResultKeys \ DOMAIN call[t].payload.results # {}

TakesCursor(t) == pc[t] = "cursor" /\ pc'[t] # "cursor"

\* C12: _get_cursor on an open connection, any number of times in a row, closes
\* nothing and connects nothing: the handle stays the same object; a new
\* connection is established only when the handle is None or closed.
CursorIdempotent ==
    [][/\ \A t \in Threads :
            (TakesCursor(t) /\ conn = "open") =>
                /\ conn' = "open" /\ connId' = connId
                /\ cur'[t] = connId /\ pc'[t] = "exec"
       /\ connId' # connId =>
            /\ \E t \in Threads : TakesCursor(t)
            /\ conn \in {"none", "closed"}
            /\ conn' = "open" /\ connId' = connId + 1]_vars

\* C12 witness: after earlier calls have come and gone, one more cursor is held
\* on the handle the process started with
CursorIdempotentWitness ==
    \E t \in Threads :
        /\ pc[t] = "exec" /\ cur[t] = connId /\ connId = 1 /\ conn = "open"
        /\ saved # {} /\ deleted # {}

\* the handler of thread t is about to return its response
Responding(t) == pc[t] = "done" /\ ~Continues(t)

\* C13: no response of signup, login or /api/auth/me carries a user object with
\* a hashed_password field, whichever user is stored.
HashStaysHome ==
    \A t \in Threads :
        (Responding(t) /\ call[t].handler \in AuthHandlers) =>
            LET user == AuthResponse(t).user
            IN  ~IsNone(user) =>
                    /\ "hashed_password" \notin DOMAIN user.v
                    /\ {"id", "email", "username"} \subseteq DOMAIN user.v

\* C13 witness: login answers 200 for a user who signed up, from a repository
\* record that holds the hash
HashStaysHomeWitness ==
    \E t \in Threads :
        /\ Responding(t) /\ call[t].handler = "login"
        /\ AuthResponse(t).status = 200
        /\ "hashed_password" \in DOMAIN ret[t].val.v
        /\ ret[t].val.v.id # AliceId

\* C14: get_ticker_info, get_ticker_prices, get_price_stats and get_all_tickers
\* never raise: on any access failure they return None, or [] for the two list
\* operations, and they change no stored data.
MarketReadsSwallow ==
    \A t \in Threads :
        (pc[t] = "done" /\ call[t].op \in MarketOps) =>
            /\ ret[t].out = "return"
            /\ err[t] # "none" =>
                  ret[t].val = IF call[t].op \in {"get_ticker_prices", "get_all_tickers"}
                               THEN PyList(<<>>) ELSE PyNone
            /\ users = before[t].users /\ portfolios = before[t].portfolios
            /\ txUsers = users /\ txPortfolios = portfolios
            /\ tickers = TickerRows /\ ticker_prices = PriceUniverse

\* C14 witness: get_ticker_prices of a symbol with stored rows has lost its
\* connection and returned the empty list
MarketReadsSwallowWitness ==
    \E t \in Threads :
        /\ pc[t] = "done" /\ call[t].op = "get_ticker_prices"
        /\ err[t] = "OperationalError"
        /\ ret[t] = Returned(PyList(<<>>))
        /\ \E r \in ticker_prices : r.ticker_symbol = call[t].symbol
        /\ portfolios # {}

\* C15: a call that finds the handle None or closed makes one connect attempt:
\* if it succeeds the query runs on the new connection; if it fails the call
\* goes to its end without another attempt and leaves the handle None; the
\* next call attempts again.
OneConnectAttempt ==
    [][\A t \in Threads :
          /\ (TakesCursor(t) /\ Stale(conn) /\ dbUp) =>
                /\ conn' = "open" /\ connId' = connId + 1
                /\ cur'[t] = connId' /\ pc'[t] = "exec"
          /\ (TakesCursor(t) /\ Stale(conn) /\ ~dbUp) =>
                /\ conn' = "none" /\ connId' = connId
                /\ cur'[t] = 0 /\ err'[t] = "OperationalError"
                /\ pc'[t] = IF call[t].op \in WriteOps THEN "except" ELSE "done"
          /\ (pc[t] # "cursor" /\ pc'[t] = "cursor") =>
                pc[t] = "idle" \/ (pc[t] = "done" /\ call'[t] # call[t])
          /\ (cur[t] = 0 /\ err[t] = "OperationalError" /\ pc[t] # "idle") =>
                /\ conn' = "none" /\ connId' = connId
                /\ pc'[t] \notin {"cursor", "exec", "commit"}]_vars

\* C15 witness: a write whose connect attempt failed has ended, the handle is
\* None and the database is back for the next call
OneConnectAttemptWitness ==
    \E t \in Threads :
        /\ ConnectFailed(t) /\ call[t].op \in WriteOps
        /\ conn = "none" /\ connId = 1 /\ dbUp
        /\ ret[t].out = "raise"

ReportedWritesCommitted ==
    \A t \in Threads :
        (/\ pc[t] = "done" /\ call[t].op \in {"create_user", "save_portfolio"}
         /\ ret[t].out = "return" /\ ~IsNone(ret[t].val)) =>
            /\ Committed(t)
            /\ call[t].op = "create_user" =>
                  find_user_by_id(users, call[t].uuid) # {PyNone}

\* C18 as claimed: a read whose query failed with a database error leaves the
\* connection usable: no later operation on the still open connection fails
\* because of a transaction left aborted.
FailedReadLeavesConnectionUsable ==
    \A t \in Threads :
        (pc[t] = "done" /\ conn = "open") => err[t] # "InFailedSqlTransaction"

====
